---- MODULE Spec2Model ----
(***************************************************************************)
(* The CFF INDEX decoder tachyfont.CffIndex (cff_index.js): header parse   *)
(* in the constructor, getLength, getElement, loadStrings and loadDict,    *)
(* running over a byte buffer through a tachyfont.BinaryFontEditor cursor. *)
(* The cursor and tachyfont.CffDict are not part of cff_index.js; their    *)
(* read primitives follow the interface of spec.md section 6.              *)
(***************************************************************************)
EXTENDS Integers, Sequences, FiniteSets, TLC

\* ---- bounds of the checked instances ----
MaxCount == 2
MaxOffSize == 4
MaxOffsetValue == 4
MaxData == 3
MaxSourceOffset == 1
MaxBaseOffset == 1
MaxLoads == 2

Null == [type |-> "null"]

VARIABLES
  buf,          \* the bytes of binEd.dataView.buffer
  baseOffset,   \* binEd.baseOffset
  binOffset,    \* binEd.offset, the cursor position
  args,         \* the constructor arguments offset and isBinary
  input,        \* the count, offSize, offsets and data the buffer encodes
  pc,           \* "new" | "constructed" | "failed"
  offset_, isBinary_, elements_, count_, offSize_, offsets_, tableLength_,
  thrown,       \* the exception the last operation ended with, or "none"
  loaded,       \* the load calls made so far, in order
  readLog,      \* cursor positions of the bytes consumed so far, in order
  lastOp, lastResult

vars == <<buf, baseOffset, binOffset, args, input, pc, offset_, isBinary_, elements_,
          count_, offSize_, offsets_, tableLength_, thrown, loaded, readLog,
          lastOp, lastResult>>

header == <<offset_, isBinary_, count_, offSize_, offsets_, tableLength_>>
env == <<buf, baseOffset, args, input>>

\* ---- the INDEX byte layout used to build input buffers ----
RECURSIVE EncodeUint(_, _)
EncodeUint(v, n) ==
  IF n = 0 THEN <<>> ELSE Append(EncodeUint(v \div 256, n - 1), v % 256)

RECURSIVE EncodeOffsets(_, _)
EncodeOffsets(offs, offSize) ==
  IF offs = <<>> THEN <<>>
  ELSE EncodeUint(Head(offs), offSize) \o EncodeOffsets(Tail(offs), offSize)

EncodeIndex(count, offSize, offs, data) ==
  EncodeUint(count, 2) \o
  (IF count = 0 THEN <<>> ELSE <<offSize>> \o EncodeOffsets(offs, offSize)) \o
  data

Padding(n) == [k \in 1..n |-> 255]

\* The bytes after the offset array: "A", "B", "C", ... (all distinct).
DataRegion(n) == [k \in 1..n |-> 64 + k]

\* ---- tachyfont.BinaryFontEditor, the cursor ----
\* A read of n bytes at cursor position pos stays inside the buffer.
CanRead(pos, n) ==
  /\ n >= 0
  /\ baseOffset + pos >= 0
  /\ baseOffset + pos + n <= Len(buf)

RECURSIVE BigEndian(_, _)
BigEndian(pos, n) ==
  IF n = 0 THEN 0
  ELSE BigEndian(pos, n - 1) * 256 + buf[baseOffset + pos + n]

Positions(pos, n) == [k \in 1..n |-> pos + k - 1]

\* Each read returns the value, the new cursor position and the positions
\* consumed, or the exception it throws (cursor unchanged).
ReadFail(pos) ==
  [thrown |-> "RangeError", value |-> Null, pos |-> pos, read |-> <<>>]

ReadUint(pos, n) ==
  IF CanRead(pos, n)
  THEN [thrown |-> "none", value |-> BigEndian(pos, n), pos |-> pos + n,
        read |-> Positions(pos, n)]
  ELSE ReadFail(pos)

getUint8(pos) == ReadUint(pos, 1)
getUint16(pos) == ReadUint(pos, 2)
getOffset(pos, offSize) == ReadUint(pos, offSize)

NewDataView(type, byteOffset, byteLength) ==
  [type |-> type, byteOffset |-> byteOffset, byteLength |-> byteLength]

ViewInBuffer(byteOffset, byteLength) ==
  /\ byteLength >= 0
  /\ byteOffset >= 0
  /\ byteOffset + byteLength <= Len(buf)

readDataView(pos, length) ==
  IF ViewInBuffer(baseOffset + pos, length)
  THEN [thrown |-> "none",
        value |-> NewDataView("DataView", baseOffset + pos, length),
        pos |-> pos + length, read |-> Positions(pos, length)]
  ELSE ReadFail(pos)

readString(pos, length) ==
  IF length <= 0
  THEN [thrown |-> "none", value |-> [type |-> "string", chars |-> <<>>],
        pos |-> pos, read |-> <<>>]
  ELSE IF CanRead(pos, length)
  THEN [thrown |-> "none",
        value |-> [type |-> "string",
                   chars |-> [k \in 1..length |-> buf[baseOffset + pos + k]]],
        pos |-> pos + length, read |-> Positions(pos, length)]
  ELSE ReadFail(pos)

\* ---- tachyfont.CffIndex ----
Init ==
  /\ \E base \in 0..MaxBaseOffset, off \in 0..MaxSourceOffset,
        count \in 0..MaxCount, n \in 0..MaxData, bin \in BOOLEAN :
       \E offSize \in (IF count = 0 THEN {0} ELSE 1..MaxOffSize) :
         \E offs \in (IF count = 0 THEN {<<>>}
                      ELSE [1..(count + 1) -> 1..MaxOffsetValue]) :
           /\ buf = Padding(base + off) \o
                    EncodeIndex(count, offSize, offs, DataRegion(n))
           /\ input = [count |-> count, offSize |-> offSize,
                       offsets |-> offs, data |-> DataRegion(n)]
           /\ baseOffset = base
           /\ args = [offset |-> off, isBinary |-> bin]
  /\ binOffset = 0
  /\ pc = "new"
  /\ offset_ = 0 /\ isBinary_ = FALSE /\ elements_ = <<>>
  /\ count_ = 0 /\ offSize_ = 0 /\ offsets_ = <<>> /\ tableLength_ = 0
  /\ thrown = "none" /\ loaded = <<>> /\ readLog = <<>>
  /\ lastOp = [name |-> "none", index |-> 0] /\ lastResult = Null

\* Mutation: the empty INDEX is given the 3-byte header of a non-empty one.
EmptyTableLength_WithOffSize == 2 + 1

\* this.tableLength_ = 2; this.offSize_ = 0;
EmptyTableLength == 2

EmptyOffSize == 0

\* if (this.count_ == 0) : the empty INDEX is handled apart.
HandleEmpty(count) == count = 0

\* Mutation: the offset loop runs once too often.
NumOffsets_OneMore(count) == count + 2

\* for (var i = 0; i <= this.count_; i++) : count + 1 offsets are read.
NumOffsets(count) == count + 1

\* Mutation: the length counts the 1-based last offset as a byte count.
TableLength_NoMinusOne(count, offSize, offsets) ==
  2 + 1 + (count + 1) * offSize + offsets[count + 1]

TableLength(count, offSize, offsets) ==
  2 + 1 + (count + 1) * offSize + offsets[count + 1] - 1

\* The loop of the constructor: for (i = 0; i <= count_; i++) push getOffset.
RECURSIVE ReadOffsets(_, _, _, _, _)
ReadOffsets(n, offSize, pos, offsets, read) ==
  IF n = 0
  THEN [thrown |-> "none", value |-> offsets, pos |-> pos, read |-> read]
  ELSE LET r == getOffset(pos, offSize)
       IN IF r.thrown # "none"
          THEN [thrown |-> r.thrown, value |-> offsets, pos |-> pos,
                read |-> read]
          ELSE ReadOffsets(n - 1, offSize, r.pos, Append(offsets, r.value),
                           read \o r.read)

ConstructFails(exception, pos, read) ==
  /\ pc' = "failed"
  /\ thrown' = exception
  /\ binOffset' = pos
  /\ readLog' = readLog \o read
  /\ UNCHANGED <<offset_, isBinary_, elements_, count_, offSize_, offsets_,
                 tableLength_>>

CffIndex ==
  /\ pc = "new"
  /\ lastOp' = [name |-> "new", index |-> 0] /\ lastResult' = Null
  /\ UNCHANGED <<env, loaded>>
  /\ LET c == getUint16(args.offset)
     IN IF c.thrown # "none"
        THEN ConstructFails(c.thrown, c.pos, c.read)
        ELSE IF HandleEmpty(c.value)
        THEN /\ pc' = "constructed" /\ thrown' = "none"
             /\ offset_' = args.offset /\ isBinary_' = args.isBinary
             /\ elements_' = <<>> /\ count_' = c.value
             /\ offsets_' = <<>>
             /\ tableLength_' = EmptyTableLength
             /\ offSize_' = EmptyOffSize
             /\ binOffset' = c.pos
             /\ readLog' = readLog \o c.read
        ELSE LET s == getUint8(c.pos)
                 o == ReadOffsets(NumOffsets(c.value), s.value, s.pos, <<>>,
                                  <<>>)
             IN IF s.thrown # "none"
                THEN ConstructFails(s.thrown, s.pos, c.read)
                ELSE IF o.thrown # "none"
                THEN ConstructFails(o.thrown, o.pos, c.read \o s.read \o o.read)
                ELSE /\ pc' = "constructed" /\ thrown' = "none"
                     /\ offset_' = args.offset /\ isBinary_' = args.isBinary
                     /\ elements_' = <<>> /\ count_' = c.value
                     /\ offSize_' = s.value
                     /\ offsets_' = o.value
                     /\ tableLength_' = TableLength(c.value, s.value, o.value)
                     /\ binOffset' = o.pos
                     /\ readLog' = readLog \o c.read \o s.read \o o.read

getLength ==
  /\ pc = "constructed"
  /\ lastOp' = [name |-> "getLength", index |-> 0]
  /\ lastResult' = tableLength_
  /\ thrown' = "none"
  /\ UNCHANGED <<env, binOffset, pc, header, elements_, loaded, readLog>>

\* The index arguments tried on getElement.
IndexArgs == -1..(MaxLoads * MaxCount)

\* index in this.elements_ : the array has exactly the slots 0..length-1.
InElements(index, elements) == index \in 0..(Len(elements) - 1)

getElement(index) ==
  /\ pc = "constructed"
  /\ lastOp' = [name |-> "getElement", index |-> index]
  /\ IF InElements(index, elements_)
     THEN lastResult' = elements_[index + 1] /\ thrown' = "none"
     ELSE lastResult' = Null /\ thrown' = "RangeError"
  /\ UNCHANGED <<env, binOffset, pc, header, elements_, loaded, readLog>>

\* Mutation: the offSize byte is left out of the header size.
StringsDataStart_NoOffSizeByte(offset, count, offSize) ==
  offset + 2 + (count + 1) * offSize

\* var dataStart = this.offset_ + 2 + 1 + (this.count_ + 1) * this.offSize_;
StringsDataStart(offset, count, offSize) ==
  offset + 2 + 1 + (count + 1) * offSize

\* var dataLength = this.offsets_[i + 1] - this.offsets_[i];
StringsDataLength(offsets, i) == offsets[i + 2] - offsets[i + 1]

\* The loop of loadStrings, from element i on.
RECURSIVE loadStringsLoop(_, _, _, _)
loadStringsLoop(i, pos, elements, read) ==
  IF ~(i < count_)
  THEN [thrown |-> "none", elements |-> elements, pos |-> pos, read |-> read]
  ELSE LET dataLength == StringsDataLength(offsets_, i)
           r == IF isBinary_ THEN readDataView(pos, dataLength)
                ELSE readString(pos, dataLength)
       IN IF r.thrown # "none"
          THEN [thrown |-> r.thrown, elements |-> elements, pos |-> pos,
                read |-> read]
          ELSE loadStringsLoop(i + 1, r.pos, Append(elements, r.value),
                               read \o r.read)

loadStrings ==
  /\ pc = "constructed"
  /\ Len(loaded) < MaxLoads
  /\ LET dataStart == StringsDataStart(offset_, count_, offSize_)
         r == loadStringsLoop(0, dataStart, elements_, <<>>)
     IN /\ elements_' = r.elements
        /\ binOffset' = r.pos
        /\ readLog' = readLog \o r.read
        /\ thrown' = r.thrown
  /\ loaded' = Append(loaded, "loadStrings")
  /\ lastOp' = [name |-> "loadStrings", index |-> 0] /\ lastResult' = Null
  /\ UNCHANGED <<env, pc, header>>

\* var dataStart = this.offset_ + 2 + 1 + (this.count_ + 1) * this.offSize_;
DictDataStart(offset, count, offSize) ==
  offset + 2 + 1 + (count + 1) * offSize

\* var length = this.offsets_[i + 1] - this.offsets_[i];
DictLength(offsets, i) == offsets[i + 2] - offsets[i + 1]

\* var offset = binEd.dataView.byteOffset + binEd.baseOffset + binEd.offset;
\* binEd.dataView spans its whole buffer, so its byteOffset is 0.
DictViewOffset(base, pos) == 0 + base + pos

\* new tachyfont.CffDict(name, dataView) followed by init(): the dictionary
\* decoded from the bytes of the view, kept as the view it was decoded from.
CffDict(byteOffset, byteLength) == NewDataView("CffDict", byteOffset, byteLength)

\* The loop of loadDict, from element i on; the loop never moves binEd.
RECURSIVE loadDictLoop(_, _, _)
loadDictLoop(i, pos, elements) ==
  IF ~(i < count_)
  THEN [thrown |-> "none", elements |-> elements]
  ELSE LET length == DictLength(offsets_, i)
           offset == DictViewOffset(baseOffset, pos)
       IN IF ~ViewInBuffer(offset, length)
          THEN [thrown |-> "RangeError", elements |-> elements]
          ELSE loadDictLoop(i + 1, pos,
                            Append(elements, CffDict(offset, length)))

\* Mutation: the seek target is stored in this.offset_.
loadDict_MovesOffset ==
  /\ pc = "constructed"
  /\ Len(loaded) < MaxLoads
  /\ LET dataStart == DictDataStart(offset_, count_, offSize_)
         r == loadDictLoop(0, dataStart, elements_)
     IN /\ elements_' = r.elements
        /\ binOffset' = dataStart
        /\ offset_' = dataStart
        /\ thrown' = r.thrown
  /\ loaded' = Append(loaded, "loadDict")
  /\ lastOp' = [name |-> "loadDict", index |-> 0] /\ lastResult' = Null
  /\ UNCHANGED <<env, pc, isBinary_, count_, offSize_, offsets_,
                 tableLength_, readLog>>

loadDict ==
  /\ pc = "constructed"
  /\ Len(loaded) < MaxLoads
  /\ LET dataStart == DictDataStart(offset_, count_, offSize_)
         r == loadDictLoop(0, dataStart, elements_)
     IN /\ elements_' = r.elements
        /\ binOffset' = dataStart
        /\ thrown' = r.thrown
  /\ loaded' = Append(loaded, "loadDict")
  /\ lastOp' = [name |-> "loadDict", index |-> 0] /\ lastResult' = Null
  /\ UNCHANGED <<env, pc, header, readLog>>

Next ==
  \/ CffIndex
  \/ getLength
  \/ \E index \in IndexArgs : getElement(index)
  \/ loadStrings
  \/ loadDict

Spec == Init /\ [][Next]_vars

\* ---- shared vocabulary of the properties ----
Constructed == pc = "constructed"

\* The buffer holds a well-formed INDEX: N elements laid out back to back
\* from offset 1 with an offset width of 1..4, all of them inside the data.
ValidEncoding ==
  \/ input.count = 0
  \/ /\ input.offSize \in 1..4
     /\ input.offsets[1] = 1
     /\ \A k \in 1..input.count : input.offsets[k] <= input.offsets[k + 1]
     /\ input.offsets[input.count + 1] - 1 <= Len(input.data)

\* Element i (0-based) of the encoded INDEX, as the bytes that were encoded.
EncodedElement(i) ==
  SubSeq(input.data, input.offsets[i + 1], input.offsets[i + 2] - 1)

\* The bytes an element of elements_ stands for.
Content(e) ==
  IF e.type = "string" THEN e.chars
  ELSE [k \in 1..e.byteLength |-> buf[e.byteOffset + k]]

ExpectedDataStart == offset_ + 3 + (count_ + 1) * offSize_

\* C1: the tableLength fixed by the constructor and returned by getLength()
\* is 2 when count == 0 and otherwise
\* 2 + 1 + (count+1)*offsetWidth + (offsets[count] - 1), offsets[count] being
\* the last of the count+1 offsets read.
C1_TableLength ==
  Constructed =>
    LET expected == IF count_ = 0 THEN 2
                    ELSE 2 + 1 + (count_ + 1) * offSize_ +
                         (offsets_[Len(offsets_)] - 1)
    IN /\ count_ > 0 => Len(offsets_) = count_ + 1
       /\ tableLength_ = expected
       /\ lastOp.name = "getLength" => lastResult = expected

\* The example of the spec: count=2, offSize=1, offsets={1,2,4} gives 9.
C1_Witness ==
  /\ Constructed
  /\ count_ = 2 /\ offSize_ = 1 /\ offsets_ = <<1, 2, 4>>
  /\ lastOp.name = "getLength" /\ lastResult = 9

\* C2: round trip of loadStrings. For a valid encoding of N elements, after
\* construction and one loadStrings call, getElement(i) for 0 <= i < N is the
\* bytes (isBinary) or characters (text) of the data region at
\* [dataStart + offsets[i] - 1, dataStart + offsets[i+1] - 1), in order.
C2_RoundTrip ==
  (Constructed /\ ValidEncoding /\ loaded = <<"loadStrings">>) =>
    /\ Len(elements_) = input.count
    /\ \A i \in 0..(input.count - 1) :
         LET e == elements_[i + 1]
         IN /\ e.type = (IF args.isBinary THEN "DataView" ELSE "string")
            /\ Content(e) = EncodedElement(i)
            /\ e.type = "DataView" =>
                 /\ e.byteOffset = baseOffset + ExpectedDataStart +
                                   input.offsets[i + 1] - 1
                 /\ e.byteLength = input.offsets[i + 2] - input.offsets[i + 1]
            /\ (lastOp.name = "getElement" /\ lastOp.index = i) =>
                 (thrown = "none" /\ lastResult = e)

\* The example of the spec: data "A", "BC"; getElement(1) == "BC".
C2_Witness ==
  /\ Constructed /\ ValidEncoding /\ loaded = <<"loadStrings">>
  /\ input.count = 2 /\ input.offsets = <<1, 2, 4>>
  /\ lastOp.name = "getElement" /\ lastOp.index = 1
  /\ lastResult = [type |-> "string", chars |-> <<66, 67>>]

\* C3: loadDict hands the Dict Decoder, for every element i, exactly that
\* element's bytes: the span starts at dataStart + offsets[i] - 1 and has
\* length offsets[i+1] - offsets[i].
C3_DictSpans ==
  (Constructed /\ ValidEncoding /\ loaded = <<"loadDict">>) =>
    /\ Len(elements_) = input.count
    /\ \A i \in 0..(input.count - 1) :
         /\ elements_[i + 1].type = "CffDict"
         /\ elements_[i + 1].byteOffset =
              baseOffset + ExpectedDataStart + input.offsets[i + 1] - 1
         /\ elements_[i + 1].byteLength =
              input.offsets[i + 2] - input.offsets[i + 1]

\* C4: for every valid encoding, the empty one included, construction
\* followed by loadStrings leaves the cursor at sourceOffset + getLength().
C4_ConsumesTableLength ==
  (Constructed /\ ValidEncoding /\ loaded = <<"loadStrings">>) =>
    binOffset = offset_ + tableLength_

\* C5: elements.length is 0 (no load has run) or exactly count (a load has
\* completed); a second load call never appends.
C5_ElementsLength ==
  (Constructed /\ ValidEncoding) =>
    /\ Len(elements_) \in {0, count_}
    /\ loaded = <<>> => Len(elements_) = 0
    /\ loaded # <<>> => Len(elements_) = count_

\* C6: getElement(i) returns elements[i] when 0 <= i < elements.length and
\* otherwise fails with a RangeError; in particular it fails for every
\* i >= count, every negative i, and every i before any load has run.
C6_GetElement ==
  (Constructed /\ lastOp.name = "getElement") =>
    LET i == lastOp.index
    IN /\ IF 0 <= i /\ i < Len(elements_)
          THEN thrown = "none" /\ lastResult = elements_[i + 1]
          ELSE thrown = "RangeError"
       /\ (i >= count_ \/ i < 0 \/ loaded = <<>>) => thrown = "RangeError"

\* C7: construction fails instead of producing a table whenever offsetWidth
\* is outside 1..4 (count > 0) or some offsets[i+1] < offsets[i]; no
\* constructed table has an element of negative byte length.
C7_MalformedRejected ==
  (Constructed /\ count_ > 0) =>
    /\ offSize_ \in 1..4
    /\ \A k \in 1..count_ : offsets_[k + 1] - offsets_[k] >= 0

\* C8: empty INDEX (count = 0): construction reads only the 2-byte count
\* (offsetWidth = 0, offsets empty), getLength() == 2, and any sequence of
\* loadStrings/loadDict calls reads no bytes and leaves elements empty.
C8_EmptyIndex ==
  (Constructed /\ input.count = 0) =>
    /\ count_ = 0 /\ offSize_ = 0 /\ offsets_ = <<>>
    /\ tableLength_ = 2
    /\ lastOp.name = "getLength" => lastResult = 2
    /\ readLog = <<args.offset, args.offset + 1>>
    /\ elements_ = <<>>

C8_Witness ==
  /\ Constructed /\ input.count = 0
  /\ loaded = <<"loadStrings", "loadDict">>
  /\ lastOp.name = "getLength"

\* C9: after construction no operation changes count, offsetWidth, offsets,
\* sourceOffset or tableLength; getLength and getElement change nothing at
\* all, and getLength() always returns the same tableLength.
C9_Frame ==
  [][Constructed =>
       /\ header' = header
       /\ pc' = pc
       /\ lastOp'.name \in {"getLength", "getElement"} =>
            (elements_' = elements_ /\ binOffset' = binOffset)
       /\ lastOp'.name = "getLength" => lastResult' = tableLength_]_vars

C9_Witness ==
  /\ Constructed /\ count_ = 2
  /\ loaded = <<"loadStrings", "loadDict">>
  /\ lastOp.name = "getLength" /\ lastResult = tableLength_

\* C10: construction with count > 0 seeks to sourceOffset and reads, in
\* order, the 16-bit count, the 8-bit offsetWidth and exactly count + 1
\* offsets, leaving elements empty and the cursor at
\* sourceOffset + 3 + (count+1)*offsetWidth with no data byte read.
C10_HeaderParse ==
  (Constructed /\ input.count > 0 /\ loaded = <<>>) =>
    /\ offset_ = args.offset
    /\ count_ = input.count
    /\ offSize_ = input.offSize
    /\ Len(offsets_) = input.count + 1
    /\ offsets_ = input.offsets
    /\ elements_ = <<>>
    /\ binOffset = args.offset + 3 + (input.count + 1) * input.offSize
    /\ readLog = [k \in 1..(3 + (input.count + 1) * input.offSize) |->
                    args.offset + k - 1]

C10_Witness ==
  /\ Constructed /\ loaded = <<>>
  /\ input.count = 2 /\ input.offSize = 3 /\ input.offsets = <<1, 3, 4>>
  /\ args.offset = 1
====
